---- MODULE Spec2Model ----
(***************************************************************************)
(* A model of the streaming chat session engine of the Blackbird SDK:      *)
(* ChatService (src/blackbird_sdk/services/chat.py) and the event source   *)
(* manager it drives.  The two event handlers, the synchronous wait loop   *)
(* and the facade calls are translated from chat.py.  The event source     *)
(* manager (registry, session state machine, read loop) is not part of the *)
(* sources at hand; it is modelled from sections 4.1-4.3 of the design     *)
(* document and every definition taken from there says so.                 *)
(***************************************************************************)
EXTENDS Integers, Sequences, FiniteSets, TLC

VARIABLES
    event_source_manager,  \* ChatService.event_source_manager is set (not None)
    streaming_enabled,     \* is_feature_enabled("streaming_responses")
    sessions,              \* stream id -> session (registry entry and handler closure)
    waiter,                \* stream id -> the wait loop of _handle_streaming_response
    now,                   \* time.time(), in polling intervals
    httpPosts,             \* number of http_client.post calls issued so far
    lastCall,              \* the outcome of the most recent facade call
    configs,               \* the AgentConfig objects, by identity
    builder,               \* the AgentBuilder: which object its self.config is
    agents,                \* the CustomAgent objects build() has returned
    lastBuild              \* the outcome of the most recent build() call

\* The state of agent/creation/builder.py, which the chat service never
\* touches.
agentVars == <<configs, builder, agents, lastBuild>>

chatVars == <<event_source_manager, streaming_enabled, sessions, waiter, now,
              httpPosts, lastCall>>

vars == <<event_source_manager, streaming_enabled, sessions, waiter, now,
          httpPosts, lastCall, configs, builder, agents, lastBuild>>

----------------------------------------------------------------------------
(* Bounds of the model *)

MaxEvents == 3      \* events one stream receives
MaxPosts == 2       \* http posts counted

(* Program constants *)
timeout == 30           \* seconds, the wait loop's timeout
PollsPerSecond == 10    \* time.sleep(0.1): ten polling intervals a second
TimeoutTicks == timeout * PollsPerSecond

----------------------------------------------------------------------------
(* Values *)

StreamIds == {"s1", "s2"}

\* Text is a sequence of characters; the empty text is <<>>.
FragA == <<"H", "i">>
FragB == <<"!">>

\* An optional field of event.data: <<>> when the key is absent, <<t>> when
\* it is present with value t.
Absent == <<>>
Has(t) == <<t>>

Event(d, st, r, m, x, e) ==
    [isDict |-> d, status |-> st, response |-> r, message |-> m, text |-> x,
     error |-> e]

EvResponseA   == Event(TRUE, "", Has(FragA), Absent, Absent, "")
EvMessageB    == Event(TRUE, "", Absent, Has(FragB), Absent, "")
EvEmptyResp   == Event(TRUE, "", Has(<<>>), Has(FragB), Absent, "")
EvTextOnly    == Event(TRUE, "", Absent, Absent, Has(FragA), "")
EvComplete    == Event(TRUE, "complete", Absent, Absent, Absent, "")
EvError       == Event(TRUE, "error", Absent, Absent, Absent, "boom")
EvNotDict     == Event(FALSE, "", Absent, Absent, Absent, "")

Events == {EvResponseA, EvMessageB, EvEmptyResp, EvTextOnly, EvComplete,
           EvError, EvNotDict}

\* A caller-supplied callback: not given (None), given and returning, or
\* given and raising.
Callbacks(c, k, e) == [on_chunk |-> c, on_complete |-> k, on_error |-> e]
NoCallbacks == Callbacks("none", "none", "none")
CallbackConfigs ==
    { NoCallbacks,
      Callbacks("ok", "ok", "ok"),
      Callbacks("raises", "ok", "ok"),
      Callbacks("ok", "raises", "ok"),
      Callbacks("ok", "ok", "raises"),
      Callbacks("ok", "ok", "none") }

\* Faulty variant: the test `options.get("agent") is None`, which lets "" through.
FalsyNoneOnly(a) == a = "None"

\* The argument values of `agent`: None, the empty string, an identifier.
AgentArgs == {"None", "", "general"}
Falsy(a) == a \in {"None", ""}

TerminalStates == {"COMPLETED", "ERROR", "CLOSED"}

RECURSIVE Join(_)
Join(frags) == IF frags = <<>> THEN <<>> ELSE Head(frags) \o Join(Tail(frags))

----------------------------------------------------------------------------
(* The session: the registry entry of the event source manager together    *)
(* with the closure of the handler registered as its event_callback.       *)

NoSession ==
    [state |-> "ABSENT", handler |-> "none", error_callback |-> "none",
     cb |-> NoCallbacks, collected_response |-> <<>>, chunkCalls |-> <<>>,
     completeCalls |-> 0, errorCalls |-> <<>>, escaped |-> 0,
     buffer |-> <<>>, received |-> 0, reading |-> FALSE, lastError |-> "",
     flushed |-> 0, discarded |-> 0]

NoWaiter == [pc |-> "idle", start_time |-> 0, returned_at |-> 0,
             reason |-> "", result |-> <<>>, seen |-> 0]

NoCall == [op |-> "none", agent |-> "", streaming |-> FALSE, raised |-> "",
           posts |-> 0, streams |-> 0, returned |-> "none", requests |-> <<>>]

----------------------------------------------------------------------------
(* The event handlers of chat.py.  Each takes the session whose closure it *)
(* is and one event, and gives the session after the handler has run.      *)

\* `except Exception as e: if on_error: on_error(e)`: the exception is
\* handed to on_error when one is given; an on_error that raises here is
\* outside every try block, so its exception leaves the handler.
ReportToOnError(s, err) ==
    IF s.cb.on_error = "none" THEN s
    ELSE LET s1 == [s EXCEPT !.errorCalls = Append(@, err)]
         IN IF s.cb.on_error = "raises"
            THEN [s1 EXCEPT !.escaped = @ + 1]
            ELSE s1

\* Faulty variant: on_chunk called outside `if chunk_text:`, so also for events
\* that carry no text.
default_chunk_handler_calls_always(s, ev) ==
    LET chunk_text == IF ~ev.isDict THEN <<>>
                      ELSE IF ev.response # Absent THEN ev.response[1]
                      ELSE IF ev.message # Absent THEN ev.message[1]
                      ELSE <<>>
        appended == IF chunk_text = <<>> THEN s
                    ELSE [s EXCEPT !.collected_response = Append(@, chunk_text)]
        called == [appended EXCEPT
                     !.chunkCalls = Append(@, [arg |-> chunk_text, as |-> "text"])]
    IN IF s.cb.on_chunk = "none" THEN appended
       ELSE IF s.cb.on_chunk = "ok" THEN called
       ELSE ReportToOnError(called, "CallbackError")

\* Faulty variant: the two keys tried in the other order.
ChunkTextMessageFirst(ev) ==
    IF ~ev.isDict THEN <<>>
    ELSE IF ev.message # Absent THEN ev.message[1]
    ELSE IF ev.response # Absent THEN ev.response[1]
    ELSE <<>>

\* chunk_text of default_chunk_handler: data['response'] when the key is
\* there, else data['message'] when that key is there, else "".
ChunkText(ev) ==
    IF ~ev.isDict THEN <<>>
    ELSE IF ev.response # Absent THEN ev.response[1]
    ELSE IF ev.message # Absent THEN ev.message[1]
    ELSE <<>>

default_chunk_handler(s, ev) ==
    LET chunk_text == ChunkText(ev)
        appended == [s EXCEPT !.collected_response = Append(@, chunk_text)]
        called == [appended EXCEPT
                     !.chunkCalls = Append(@, [arg |-> chunk_text, as |-> "text"])]
    IN IF chunk_text = <<>> THEN s
       ELSE IF s.cb.on_chunk = "none" THEN appended
       ELSE IF s.cb.on_chunk = "ok" THEN called
       ELSE ReportToOnError(called, "CallbackError")

handle_event(s, ev) ==
    IF ~ev.isDict THEN
        \* event_data.get on a payload that is no mapping raises
        ReportToOnError(s, "AttributeError")
    ELSE IF ev.status = "complete" THEN
        LET called == [s EXCEPT !.completeCalls = @ + 1]
        IN IF s.cb.on_complete = "none" THEN s
           ELSE IF s.cb.on_complete = "ok" THEN called
           ELSE ReportToOnError(called, "CallbackError")
    ELSE IF ev.status = "error" THEN
        LET error_msg == IF ev.error = "" THEN "Stream error" ELSE ev.error
            called == [s EXCEPT !.errorCalls = Append(@, error_msg)]
        IN IF s.cb.on_error = "none" THEN s
           ELSE IF s.cb.on_error = "ok" THEN called
           ELSE ReportToOnError(called, "CallbackError")
    ELSE IF ev.response # Absent THEN
        LET called == [s EXCEPT
                         !.chunkCalls = Append(@, [arg |-> ev.response[1], as |-> "dict"])]
        IN IF s.cb.on_chunk = "none" THEN s
           ELSE IF s.cb.on_chunk = "ok" THEN called
           ELSE ReportToOnError(called, "CallbackError")
    ELSE s

\* error_handler / handle_error: `if on_error: on_error(error)`, no try.
error_handler(s, err) ==
    IF s.cb.on_error = "none" THEN s
    ELSE LET s1 == [s EXCEPT !.errorCalls = Append(@, err)]
         IN IF s.cb.on_error = "raises"
            THEN [s1 EXCEPT !.escaped = @ + 1]
            ELSE s1

\* The callbacks both start_chat_stream calls register with the manager:
\* event_callback alone; completion_handler, error_handler and handle_error
\* are defined and passed nowhere.
RegisteredErrorCallback == "none"

\* event_callback(event)
InvokeEventCallback(s, ev) ==
    IF s.handler = "default_chunk_handler" THEN default_chunk_handler(s, ev)
    ELSE IF s.handler = "handle_event" THEN handle_event(s, ev)
    ELSE s

----------------------------------------------------------------------------
(* The event source manager, from sections 4.1-4.3 of the design document. *)

\* 4.3 rule 4: the dispatcher's own text extraction, response, then
\* message, then the generic text field.
ExtractText(ev) ==
    IF ~ev.isDict THEN <<>>
    ELSE IF ev.response # Absent /\ ev.response[1] # <<>> THEN ev.response[1]
    ELSE IF ev.message # Absent /\ ev.message[1] # <<>> THEN ev.message[1]
    ELSE IF ev.text # Absent THEN ev.text[1]
    ELSE <<>>

\* start_chat_stream: registry create + open, CREATED -> OPEN.
NewSession(handler, cb) ==
    [NoSession EXCEPT !.state = "OPEN", !.handler = handler,
                      !.error_callback = RegisteredErrorCallback,
                      !.cb = cb, !.reading = TRUE]

\* Faulty variant: a read loop that goes on after a terminal event.
CanReceiveAfterTerminal(s) == s.state # "ABSENT" /\ s.received < MaxEvents

\* The read loop takes events only while it runs.
CanReceive(s) == s.reading /\ s.received < MaxEvents

\* Faulty variant: the dispatcher without rule 1, so that an event read
\* after stop still goes to the callback.
DispatchAfterClose(s, ev) ==
    LET r == [s EXCEPT !.received = @ + 1]
    IN IF ev.isDict /\ ev.status = "complete" THEN
           [InvokeEventCallback(r, ev) EXCEPT !.state = "COMPLETED", !.reading = FALSE]
       ELSE IF ev.isDict /\ ev.status = "error" THEN
           [InvokeEventCallback(r, ev) EXCEPT
               !.state = "ERROR", !.reading = FALSE,
               !.lastError = IF ev.error = "" THEN "Stream error" ELSE ev.error]
       ELSE IF s.state = "PAUSED" THEN [r EXCEPT !.buffer = Append(@, ev)]
       ELSE IF s.state = "OPEN" /\ ExtractText(ev) # <<>> THEN
           InvokeEventCallback([r EXCEPT !.state = "STREAMING"], ev)
       ELSE [InvokeEventCallback(r, ev) EXCEPT
                !.reading = (s.state # "CLOSED"),
                !.discarded = IF s.state = "CLOSED" THEN @ + 1 ELSE @]

\* 4.3 rules 1-6 for one event.
Dispatch(s, ev) ==
    LET r == [s EXCEPT !.received = @ + 1]
    IN IF s.state = "CLOSED" THEN
           \* (discarded is a history field: events dropped while CLOSED.)
           [r EXCEPT !.reading = FALSE, !.discarded = @ + 1]
       ELSE IF ev.isDict /\ ev.status = "complete" THEN
           [InvokeEventCallback(r, ev) EXCEPT !.state = "COMPLETED", !.reading = FALSE]
       ELSE IF ev.isDict /\ ev.status = "error" THEN
           [InvokeEventCallback(r, ev) EXCEPT
               !.state = "ERROR", !.reading = FALSE,
               !.lastError = IF ev.error = "" THEN "Stream error" ELSE ev.error]
       ELSE IF s.state = "PAUSED" THEN [r EXCEPT !.buffer = Append(@, ev)]
       ELSE IF s.state = "OPEN" /\ ExtractText(ev) # <<>> THEN
           InvokeEventCallback([r EXCEPT !.state = "STREAMING"], ev)
       ELSE InvokeEventCallback(r, ev)

\* Transport failure: 4.3 rule 3 on the failure path.
NotifyError(s, err) ==
    IF s.error_callback = "none" THEN s ELSE error_handler(s, err)

TransportFailed(s) ==
    [NotifyError(s, "TransportFailure") EXCEPT
        !.state = "ERROR", !.reading = FALSE, !.lastError = "TransportFailure"]

\* resume flushes the buffered events through the callback, oldest first.
RECURSIVE Flush(_, _)
Flush(s, buf) ==
    IF buf = <<>> THEN s ELSE Flush(InvokeEventCallback(s, Head(buf)), Tail(buf))

\* (flushed is a history field: how many events the last resume flushed.)
Resumed(s) ==
    Flush([s EXCEPT !.state = "STREAMING", !.buffer = <<>>,
                    !.flushed = Len(s.buffer)],
          s.buffer)

\* 4.2: pause is for a STREAMING session, resume for a PAUSED one.
CanPause(s) == s.state = "STREAMING"

\* Faulty variant: resume accepted in every state.
CanResumeAnyState(s) == s.state # "ABSENT"

CanResume(s) == s.state = "PAUSED"

Paused(s) == [s EXCEPT !.state = "PAUSED"]

Stopped(s) == [s EXCEPT !.state = "CLOSED"]

get_stream_status(id) == sessions[id].state

----------------------------------------------------------------------------
(* agent/creation/builder.py: AgentConfig, CustomAgent, AgentBuilder *)

\* Object identities: AgentConfig objects and CustomAgent objects.
ConfigIds == {"c1", "c2"}
AgentIds == {"a1", "a2"}

\* AgentCapability members used in calls, and the four of a template.
Capabilities == {"file_processing", "web_search"}

\* Temperatures are in tenths: 0.7 is 7.
DefaultTemperature == 7
DefaultMaxTokens == 2000
MaxValidTemperature == 20

\* AgentConfig(name=..., description=...) with the dataclass defaults;
\* custom_instructions is the set of its keys.
AgentConfig(name, description) ==
    [allocated |-> TRUE, name |-> name, description |-> description,
     temperature |-> DefaultTemperature, max_tokens |-> DefaultMaxTokens,
     capabilities |-> <<>>, custom_instructions |-> {}]

\* An identity no object has yet.
NoConfig == [AgentConfig("", "") EXCEPT !.allocated = FALSE]

\* (epoch is a history field: how many times from_template had replaced
\* the builder's configuration when the agent was built.)
NoAgentObject == [config |-> "none", is_initialized |-> FALSE, epoch |-> 0]

\* (reported is a history field: what validate() would have listed when
\* build() was called.)
NoBuild == [raised |-> "", agent |-> "none", reported |-> <<>>]

\* AgentTemplates.financial_analyst()
financial_analyst ==
    [AgentConfig("financial_analyst", "AI agent specialized in financial analysis")
        EXCEPT !.temperature = 3, !.max_tokens = 3000,
               !.capabilities = <<"file_processing", "web_search",
                                  "calculations", "data_analysis">>,
               !.custom_instructions = {"analysis_format", "risk_assessment",
                                        "sources"}]

\* AgentTemplates.get_template(template_name): a new object on each call,
\* or None for a name that is no template.
get_template(template_name) ==
    IF template_name = "financial_analyst" THEN <<financial_analyst>> ELSE <<>>

----------------------------------------------------------------------------
Init ==
    /\ event_source_manager \in BOOLEAN
    /\ streaming_enabled \in BOOLEAN
    /\ sessions = [id \in StreamIds |-> NoSession]
    /\ waiter = [id \in StreamIds |-> NoWaiter]
    /\ now = 0
    /\ httpPosts = 0
    /\ lastCall = NoCall
    /\ configs = [c \in ConfigIds |-> IF c = "c1" THEN AgentConfig("", "") ELSE NoConfig]
    /\ builder = [config |-> "c1", epoch |-> 0]
    /\ agents = [a \in AgentIds |-> NoAgentObject]
    /\ lastBuild = NoBuild

\* The read loop of stream id receives event ev.
Deliver(id, ev) ==
    /\ CanReceive(sessions[id])
    /\ sessions' = [sessions EXCEPT ![id] = Dispatch(@, ev)]
    /\ UNCHANGED <<agentVars, event_source_manager, streaming_enabled, waiter, now,
                   httpPosts, lastCall>>

\* The transport client raises in the read loop of stream id.
TransportFail(id) ==
    /\ sessions[id].reading
    /\ sessions[id].state \in {"OPEN", "STREAMING", "PAUSED"}
    /\ sessions' = [sessions EXCEPT ![id] = TransportFailed(@)]
    /\ UNCHANGED <<agentVars, event_source_manager, streaming_enabled, waiter, now,
                   httpPosts, lastCall>>

----------------------------------------------------------------------------
(* ChatService: the streaming entry points *)

Call(op, agent, streaming, raised, posts, streams) ==
    [op |-> op, agent |-> agent, streaming |-> streaming, raised |-> raised,
     posts |-> posts, streams |-> streams, returned |-> "none",
     requests |-> <<>>]

\* _handle_streaming_response up to the wait loop: the manager is required,
\* the stream is started with default_chunk_handler as its event callback
\* and the caller goes on to poll.
StartCollect(id, cb, call) ==
    IF ~event_source_manager THEN
        /\ lastCall' = [call EXCEPT !.raised = "StreamingResponseError"]
        /\ UNCHANGED <<sessions, waiter>>
    ELSE
        /\ sessions[id].state = "ABSENT"
        /\ sessions' = [sessions EXCEPT
                          ![id] = NewSession("default_chunk_handler", cb)]
        /\ waiter' = [waiter EXCEPT
                        ![id] = [NoWaiter EXCEPT !.pc = "polling",
                                                 !.start_time = now]]
        /\ lastCall' = [call EXCEPT !.streams = 1, !.returned = "collected_text"]

\* _handle_streaming_response(data, on_chunk, on_complete, on_error)
HandleStreamingResponse(id, cb) ==
    /\ StartCollect(id, cb,
                    Call("_handle_streaming_response", "general", TRUE, "", 0, 0))
    /\ UNCHANGED <<agentVars, event_source_manager, streaming_enabled, now, httpPosts>>

\* Faulty variant: the test of line 34 without `streaming and`, so that a
\* plain send takes the streaming path whenever a manager is there.
send_message_ignores_streaming_flag(id, agent, streaming, cb) ==
    LET call == Call("send_message", agent, streaming, "", 0, 0)
    IN IF Falsy(agent) THEN
           /\ lastCall' = [call EXCEPT !.raised = "ValidationError"]
           /\ UNCHANGED <<agentVars, event_source_manager, streaming_enabled, sessions,
                          waiter, now, httpPosts>>
       ELSE IF event_source_manager /\ streaming_enabled THEN
           /\ StartCollect(id, NoCallbacks, call)
           /\ UNCHANGED <<agentVars, event_source_manager, streaming_enabled, now, httpPosts>>
       ELSE
           /\ httpPosts < MaxPosts
           /\ httpPosts' = httpPosts + 1
           /\ \/ lastCall' = [call EXCEPT !.posts = 1, !.returned = "http_response"]
              \/ lastCall' = [call EXCEPT !.posts = 1, !.raised = "HTTPError"]
           /\ UNCHANGED <<agentVars, event_source_manager, streaming_enabled, sessions,
                          waiter, now>>

\* Faulty variant: send_message handing its three callbacks on to
\* _handle_streaming_response.
send_message_forwards_callbacks(id, agent, streaming, cb) ==
    LET call == Call("send_message", agent, streaming, "", 0, 0)
    IN IF Falsy(agent) THEN
           /\ lastCall' = [call EXCEPT !.raised = "ValidationError"]
           /\ UNCHANGED <<agentVars, event_source_manager, streaming_enabled, sessions,
                          waiter, now, httpPosts>>
       ELSE IF streaming /\ event_source_manager /\ streaming_enabled THEN
           /\ StartCollect(id, cb, call)
           /\ UNCHANGED <<agentVars, event_source_manager, streaming_enabled, now, httpPosts>>
       ELSE
           /\ httpPosts < MaxPosts
           /\ httpPosts' = httpPosts + 1
           /\ \/ lastCall' = [call EXCEPT !.posts = 1, !.returned = "http_response"]
              \/ lastCall' = [call EXCEPT !.posts = 1, !.raised = "HTTPError"]
           /\ UNCHANGED <<agentVars, event_source_manager, streaming_enabled, sessions,
                          waiter, now>>

\* send_message(message, options, streaming, on_chunk, on_complete, on_error)
\* The three callbacks are named parameters of send_message, so they are
\* never in **kwargs, which is all _handle_streaming_response is given.
send_message(id, agent, streaming, cb) ==
    LET call == Call("send_message", agent, streaming, "", 0, 0)
    IN IF Falsy(agent) THEN
           /\ lastCall' = [call EXCEPT !.raised = "ValidationError"]
           /\ UNCHANGED <<agentVars, event_source_manager, streaming_enabled, sessions,
                          waiter, now, httpPosts>>
       ELSE IF streaming /\ event_source_manager /\ streaming_enabled THEN
           /\ StartCollect(id, NoCallbacks, call)
           /\ UNCHANGED <<agentVars, event_source_manager, streaming_enabled, now, httpPosts>>
       ELSE
           \* http_client.post returns the response, or raises and the
           \* except clause logs and raises again.
           /\ httpPosts < MaxPosts
           /\ httpPosts' = httpPosts + 1
           /\ \/ lastCall' = [call EXCEPT !.posts = 1, !.returned = "http_response"]
              \/ lastCall' = [call EXCEPT !.posts = 1, !.raised = "HTTPError"]
           /\ UNCHANGED <<agentVars, event_source_manager, streaming_enabled, sessions,
                          waiter, now>>

\* send_streaming_message(message, agent, model, on_chunk, on_complete,
\* on_error) with the streaming feature enabled (the decorator lets the call
\* through), and _send_streaming_message, which it ends in.
send_streaming_message(id, agent, cb) ==
    LET call == Call("send_streaming_message", agent, TRUE, "", 0, 0)
    IN /\ streaming_enabled
       /\ IF ~event_source_manager THEN
              /\ lastCall' = [call EXCEPT !.raised = "StreamingResponseError"]
              /\ UNCHANGED sessions
          ELSE
              /\ sessions[id].state = "ABSENT"
              /\ sessions' = [sessions EXCEPT
                                ![id] = NewSession("handle_event", cb)]
              /\ lastCall' = [call EXCEPT !.streams = 1, !.returned = "stream_id"]
       /\ UNCHANGED <<agentVars, event_source_manager, streaming_enabled, waiter, now,
                      httpPosts>>

----------------------------------------------------------------------------
(* ChatService.send_message_with_files *)

\* options: None, or a dict with or without the keys 'agent' and 'model'.
Options(given, agent, model) == [given |-> given, agent |-> agent, model |-> model]
OptionArgs ==
    {Options(FALSE, Absent, Absent), Options(TRUE, Absent, Absent),
     Options(TRUE, Has("finance"), Absent),
     Options(TRUE, Has("finance"), Has("m1"))}

\* `if options` is false for None and for the empty dict.
Truthy(options) ==
    options.given /\ (options.agent # Absent \/ options.model # Absent)

\* upload_data: the agent and model of options, or the defaults; the
\* default model depends on the test `system != "darwin"`.
upload_data(options, darwin) ==
    [agent |-> IF Truthy(options) /\ options.agent # Absent
               THEN options.agent[1] ELSE "general",
     model |-> IF Truthy(options) /\ options.model # Absent
               THEN options.model[1]
               ELSE IF darwin THEN "mlx-community/Qwen3-1.7B-bnb-4bit"
               ELSE "unsloth/Qwen3-1.7B-bnb-4bit"]

\* One http_client.post: its endpoint, the agent and model of its data,
\* and whether it raised.
Request(endpoint, data, raised) ==
    [endpoint |-> endpoint, agent |-> data.agent, model |-> data.model,
     raised |-> raised]

\* chat_data takes 'agent' and 'model' from upload_data.
chat_data(upload) == [agent |-> upload.agent, model |-> upload.model]

FilesCall(agent, raised, requests, returned) ==
    [Call("send_message_with_files", agent, FALSE, raised, Len(requests), 0)
        EXCEPT !.requests = requests, !.returned = returned]

\* Faulty variant: the RAG initialization wrapped in a try block that logs
\* the failure and goes on to the chat request.
send_message_with_files_goes_on(readable, options, darwin, rag_ok, chat_ok) ==
    LET upload == upload_data(options, darwin)
        rag == Request("INITIALIZE_RAG", upload, ~rag_ok)
        chat == Request("CHAT", chat_data(upload), ~chat_ok)
    IN /\ IF ~readable THEN
              /\ lastCall' = FilesCall(upload.agent, "FileNotFoundError", <<>>, "none")
              /\ UNCHANGED httpPosts
          ELSE
              /\ httpPosts + 2 <= MaxPosts
              /\ httpPosts' = httpPosts + 2
              /\ lastCall' = IF chat_ok
                    THEN FilesCall(upload.agent, "", <<rag, chat>>, "http_response")
                    ELSE FilesCall(upload.agent, "HTTPError", <<rag, chat>>, "none")
       /\ UNCHANGED <<agentVars, event_source_manager, streaming_enabled, sessions, waiter, now>>

\* send_message_with_files(message, files, options): the files are read,
\* the RAG initialization is posted, then the chat request; an exception
\* of any of the three steps leaves the method there.
send_message_with_files(readable, options, darwin, rag_ok, chat_ok) ==
    LET upload == upload_data(options, darwin)
        rag == Request("INITIALIZE_RAG", upload, ~rag_ok)
        chat == Request("CHAT", chat_data(upload), ~chat_ok)
    IN /\ IF ~readable THEN
              \* open(file_path, 'rb') raises before any request
              /\ lastCall' = FilesCall(upload.agent, "FileNotFoundError", <<>>, "none")
              /\ UNCHANGED httpPosts
          ELSE IF ~rag_ok THEN
              /\ httpPosts + 1 <= MaxPosts
              /\ httpPosts' = httpPosts + 1
              /\ lastCall' = FilesCall(upload.agent, "HTTPError", <<rag>>, "none")
          ELSE
              /\ httpPosts + 2 <= MaxPosts
              /\ httpPosts' = httpPosts + 2
              /\ lastCall' = IF chat_ok
                    THEN FilesCall(upload.agent, "", <<rag, chat>>, "http_response")
                    ELSE FilesCall(upload.agent, "HTTPError", <<rag, chat>>, "none")
       /\ UNCHANGED <<agentVars, event_source_manager, streaming_enabled, sessions, waiter, now>>

----------------------------------------------------------------------------
(* ChatService: control calls, delegated to the manager when there is one *)

ControlCall(op, raised) == Call(op, "", FALSE, raised, 0, 0)

\* Faulty variant: pause_stream without `if self.event_source_manager:`,
\* so that the call on a missing manager raises.
pause_stream_unguarded(id) ==
    /\ IF event_source_manager /\ CanPause(sessions[id]) THEN
           /\ sessions' = [sessions EXCEPT ![id] = Paused(@)]
           /\ lastCall' = ControlCall("pause_stream", "")
       ELSE
           /\ UNCHANGED sessions
           /\ lastCall' = ControlCall("pause_stream",
                  IF ~event_source_manager THEN "AttributeError"
                  ELSE IF sessions[id].state # "ABSENT"
                  THEN "InvalidStreamStateError" ELSE "")
    /\ UNCHANGED <<agentVars, event_source_manager, streaming_enabled, waiter, now, httpPosts>>

pause_stream(id) ==
    /\ IF event_source_manager /\ CanPause(sessions[id]) THEN
           /\ sessions' = [sessions EXCEPT ![id] = Paused(@)]
           /\ lastCall' = ControlCall("pause_stream", "")
       ELSE
           /\ UNCHANGED sessions
           /\ lastCall' = ControlCall("pause_stream",
                  IF event_source_manager /\ sessions[id].state # "ABSENT"
                  THEN "InvalidStreamStateError" ELSE "")
    /\ UNCHANGED <<agentVars, event_source_manager, streaming_enabled, waiter, now, httpPosts>>

\* Faulty variant: resume_stream forwarding to the manager's pause_stream.
resume_stream_calls_pause(id) ==
    /\ IF event_source_manager /\ CanPause(sessions[id]) THEN
           /\ sessions' = [sessions EXCEPT ![id] = Paused(@)]
           /\ lastCall' = ControlCall("resume_stream", "")
       ELSE
           /\ UNCHANGED sessions
           /\ lastCall' = ControlCall("resume_stream",
                  IF event_source_manager /\ sessions[id].state # "ABSENT"
                  THEN "InvalidStreamStateError" ELSE "")
    /\ UNCHANGED <<agentVars, event_source_manager, streaming_enabled, waiter, now, httpPosts>>

resume_stream(id) ==
    /\ IF event_source_manager /\ CanResume(sessions[id]) THEN
           /\ sessions' = [sessions EXCEPT ![id] = Resumed(@)]
           /\ lastCall' = ControlCall("resume_stream", "")
       ELSE
           /\ UNCHANGED sessions
           /\ lastCall' = ControlCall("resume_stream",
                  IF event_source_manager /\ sessions[id].state # "ABSENT"
                  THEN "InvalidStreamStateError" ELSE "")
    /\ UNCHANGED <<agentVars, event_source_manager, streaming_enabled, waiter, now, httpPosts>>

\* Faulty variant: the guard reads "if not self.event_source_manager".
stop_stream_inverted_guard(id) ==
    /\ UNCHANGED sessions
    /\ lastCall' = ControlCall("stop_stream",
           IF event_source_manager THEN "" ELSE "AttributeError")
    /\ UNCHANGED <<agentVars, event_source_manager, streaming_enabled, waiter, now, httpPosts>>

stop_stream(id) ==
    /\ IF event_source_manager /\ sessions[id].state # "ABSENT" THEN
           sessions' = [sessions EXCEPT ![id] = Stopped(@)]
       ELSE UNCHANGED sessions
    /\ lastCall' = ControlCall("stop_stream", "")
    /\ UNCHANGED <<agentVars, event_source_manager, streaming_enabled, waiter, now, httpPosts>>

----------------------------------------------------------------------------
(* The wait loop of _handle_streaming_response.  Time is counted in        *)
(* polling intervals: time.sleep(0.1) is one tick, the loop's own          *)
(* statements take none.                                                   *)

\* Faulty variant: `while True`, a loop without the timeout test.
LoopConditionNoTimeout(start_time, t) == TRUE

\* while time.time() - start_time < timeout
LoopCondition(start_time, t) == t - start_time < TimeoutTicks

\* Faulty variant: the status test without 'CLOSED'.
IsTerminalStatusNoClosed(status) == status \in {"ERROR", "COMPLETED"}

\* if status in ['CLOSED', 'ERROR', 'COMPLETED']: break
IsTerminalStatus(status) == status \in {"CLOSED", "ERROR", "COMPLETED"}

\* Faulty variant: collected_response kept in one list shared by all calls
\* (an attribute of the service) in place of a local of each call.
ReturnedSharedList(w, s, reason) ==
    [w EXCEPT !.pc = "returned", !.returned_at = now, !.reason = reason,
              !.result = Join(sessions["s1"].collected_response
                              \o sessions["s2"].collected_response),
              !.seen = Len(s.collected_response)]

\* return ''.join(collected_response)
Returned(w, s, reason) ==
    [w EXCEPT !.pc = "returned", !.returned_at = now, !.reason = reason,
              !.result = Join(s.collected_response),
              !.seen = Len(s.collected_response)]

\* Faulty variant: a loop that stops the stream when it gives up.
PollStopsOnTimeout(id) ==
    /\ waiter[id].pc = "polling"
    /\ IF ~LoopCondition(waiter[id].start_time, now) THEN
           /\ waiter' = [waiter EXCEPT ![id] = Returned(@, sessions[id], "timeout")]
           /\ sessions' = [sessions EXCEPT ![id] = Stopped(@)]
       ELSE IF IsTerminalStatus(get_stream_status(id)) THEN
           /\ waiter' = [waiter EXCEPT ![id] = Returned(@, sessions[id], "terminal")]
           /\ UNCHANGED sessions
       ELSE
           /\ waiter' = [waiter EXCEPT ![id].pc = "sleeping"]
           /\ UNCHANGED sessions
    /\ UNCHANGED <<agentVars, event_source_manager, streaming_enabled, now, httpPosts, lastCall>>

\* One pass of the loop: test the clock, read the status, break or sleep.
Poll(id) ==
    /\ waiter[id].pc = "polling"
    /\ IF ~LoopCondition(waiter[id].start_time, now) THEN
           waiter' = [waiter EXCEPT ![id] = Returned(@, sessions[id], "timeout")]
       ELSE IF IsTerminalStatus(get_stream_status(id)) THEN
           waiter' = [waiter EXCEPT ![id] = Returned(@, sessions[id], "terminal")]
       ELSE
           waiter' = [waiter EXCEPT ![id].pc = "sleeping"]
    /\ UNCHANGED <<agentVars, event_source_manager, streaming_enabled, sessions, now,
                   httpPosts, lastCall>>

\* A polling interval passes: every sleeping caller wakes.
Tick ==
    /\ \E id \in StreamIds : waiter[id].pc = "sleeping"
    /\ \A id \in StreamIds : waiter[id].pc # "polling"
    /\ now' = now + 1
    /\ waiter' = [id \in StreamIds |->
                    IF waiter[id].pc = "sleeping"
                    THEN [waiter[id] EXCEPT !.pc = "polling"]
                    ELSE waiter[id]]
    /\ UNCHANGED <<agentVars, event_source_manager, streaming_enabled, sessions,
                   httpPosts, lastCall>>

----------------------------------------------------------------------------
(* AgentBuilder and CustomAgent: the calls *)

Range(seq) == {seq[i] : i \in 1..Len(seq)}

\* The builder's own configuration object.
Config == configs[builder.config]

\* self.config.<field> = value on the builder's configuration object.
SetField(cfgs) ==
    /\ configs' = cfgs
    /\ UNCHANGED <<builder, agents, lastBuild, chatVars>>

name(n) == SetField([configs EXCEPT ![builder.config].name = n])

description(d) == SetField([configs EXCEPT ![builder.config].description = d])

temperature(temp) == SetField([configs EXCEPT ![builder.config].temperature = temp])

max_tokens(tokens) == SetField([configs EXCEPT ![builder.config].max_tokens = tokens])

\* Faulty variant: the append without the membership test.
AppendCapability(capabilities, capability) == Append(capabilities, capability)

\* `if capability not in capabilities: capabilities.append(capability)`
AddCapability(capabilities, capability) ==
    IF capability \in Range(capabilities) THEN capabilities
    ELSE Append(capabilities, capability)

with_capability(capability) ==
    SetField([configs EXCEPT
                ![builder.config].capabilities = AddCapability(@, capability)])

\* for capability in capabilities: self.with_capability(capability)
RECURSIVE AddAll(_, _)
AddAll(capabilities, new) ==
    IF new = <<>> THEN capabilities
    ELSE AddAll(AddCapability(capabilities, Head(new)), Tail(new))

with_capabilities(capabilities) ==
    SetField([configs EXCEPT
                ![builder.config].capabilities = AddAll(@, capabilities)])

\* self.config.custom_instructions[instruction_type] = instruction
instruction(instruction_type) ==
    SetField([configs EXCEPT
                ![builder.config].custom_instructions = @ \cup {instruction_type}])

\* from_template: self.config = replace(template) when the name is a
\* template's, a new object with the template's field values.
from_template(template_name) ==
    LET template == get_template(template_name)
    IN IF template = <<>> THEN UNCHANGED vars
       ELSE \E c \in ConfigIds :
              /\ ~configs[c].allocated
              /\ configs' = [configs EXCEPT ![c] = template[1]]
              /\ builder' = [config |-> c, epoch |-> builder.epoch + 1]
              /\ UNCHANGED <<agents, lastBuild, chatVars>>

\* validate(): the list of error messages.
validate(cfg) ==
    (IF cfg.name = "" THEN <<"Agent name is required">> ELSE <<>>)
    \o (IF cfg.description = "" THEN <<"Agent description is required">> ELSE <<>>)
    \o (IF cfg.temperature < 0 \/ cfg.temperature > MaxValidTemperature
        THEN <<"Temperature must be between 0 and 2">> ELSE <<>>)
    \o (IF cfg.max_tokens <= 0 THEN <<"Max tokens must be positive">> ELSE <<>>)

\* CustomAgent(self.config, sdk_instance) followed by is_initialized = True:
\* the agent keeps the object it is given.
CustomAgent(config) ==
    [config |-> config, is_initialized |-> TRUE, epoch |-> builder.epoch]

BuildFailed == [raised |-> "ValidationError", agent |-> "none",
                reported |-> validate(Config)]

\* Faulty variant: build() refusing every configuration validate() faults.
build_validates ==
    /\ IF validate(Config) # <<>> THEN
           /\ lastBuild' = BuildFailed
           /\ UNCHANGED agents
       ELSE \E a \in AgentIds :
              /\ agents[a].config = "none"
              /\ agents' = [agents EXCEPT ![a] = CustomAgent(builder.config)]
              /\ lastBuild' = [raised |-> "", agent |-> a,
                               reported |-> validate(Config)]
    /\ UNCHANGED <<configs, builder, chatVars>>

\* Faulty variant: build() giving the agent a copy of the configuration.
build_copies ==
    /\ IF Config.name = "" \/ Config.description = "" THEN
           /\ lastBuild' = BuildFailed
           /\ UNCHANGED <<agents, configs>>
       ELSE \E a \in AgentIds, c \in ConfigIds :
              /\ agents[a].config = "none"
              /\ ~configs[c].allocated
              /\ configs' = [configs EXCEPT ![c] = Config]
              /\ agents' = [agents EXCEPT ![a] = CustomAgent(c)]
              /\ lastBuild' = [raised |-> "", agent |-> a,
                               reported |-> validate(Config)]
    /\ UNCHANGED <<builder, chatVars>>

build ==
    /\ IF Config.name = "" THEN
           /\ lastBuild' = BuildFailed
           /\ UNCHANGED agents
       ELSE IF Config.description = "" THEN
           /\ lastBuild' = BuildFailed
           /\ UNCHANGED agents
       ELSE \E a \in AgentIds :
              /\ agents[a].config = "none"
              /\ agents' = [agents EXCEPT ![a] = CustomAgent(builder.config)]
              /\ lastBuild' = [raised |-> "", agent |-> a,
                               reported |-> validate(Config)]
    /\ UNCHANGED <<configs, builder, chatVars>>

\* A call on a built agent changes the object the agent holds.
AgentSets(a, cfgs) ==
    /\ agents[a].config # "none"
    /\ configs' = cfgs
    /\ UNCHANGED <<builder, agents, lastBuild, chatVars>>

enable_capability(a, capability) ==
    AgentSets(a, [configs EXCEPT
                    ![agents[a].config].capabilities = AddCapability(@, capability)])

set_instruction(a, instruction_type) ==
    AgentSets(a, [configs EXCEPT
                    ![agents[a].config].custom_instructions = @ \cup {instruction_type}])

----------------------------------------------------------------------------
(* Specifications *)

MainIds == {"s1"}

\* The dispatch does not read the agent: one missing and one given.
MainAgents == {"None", "general"}

\* The dispatch of one stream's events to its handler, with the control
\* calls; the caller of the synchronous path stays in its wait loop.
Next ==
    \E id \in MainIds :
        \/ \E cb \in CallbackConfigs : HandleStreamingResponse(id, cb)
        \/ \E a \in MainAgents, cb \in CallbackConfigs : send_message(id, a, TRUE, cb)
        \/ \E a \in MainAgents, cb \in CallbackConfigs : send_streaming_message(id, a, cb)
        \/ \E ev \in Events : Deliver(id, ev)
        \/ TransportFail(id)
        \/ pause_stream(id)
        \/ resume_stream(id)
        \/ stop_stream(id)

Spec == Init /\ [][Next]_vars

\* The facade calls alone, on any stream id: what each call raises, posts
\* and starts.
NextFacade ==
    \E id \in StreamIds :
        \/ \E cb \in CallbackConfigs : HandleStreamingResponse(id, cb)
        \/ \E a \in AgentArgs, st \in BOOLEAN, cb \in CallbackConfigs :
              send_message(id, a, st, cb)
        \/ \E a \in AgentArgs, cb \in CallbackConfigs : send_streaming_message(id, a, cb)
        \/ pause_stream(id)
        \/ resume_stream(id)
        \/ stop_stream(id)

SpecFacade == Init /\ [][NextFacade]_vars

\* The synchronous path with its wait loop and the clock: one stream, the
\* events that matter to the loop.
WaitEvents == {EvResponseA, EvMessageB, EvComplete}
WaitCallbacks == {Callbacks("ok", "ok", "ok")}

NextWait ==
    \/ \E id \in MainIds :
        \/ \E cb \in WaitCallbacks : HandleStreamingResponse(id, cb)
        \/ \E ev \in WaitEvents : Deliver(id, ev)
        \/ TransportFail(id)
        \/ pause_stream(id)
        \/ stop_stream(id)
        \/ Poll(id)
    \/ Tick

SpecWait == Init /\ [][NextWait]_vars

\* Two synchronous calls that start together, each with its own stream and
\* wait loop; stream s1 carries "Hi" fragments and stream s2 "!" fragments.
MultiEvents(id) == IF id = "s1" THEN {EvResponseA} ELSE {EvMessageB}

NextMulti ==
    \/ \E id \in StreamIds :
        \/ now = 0 /\ \E cb \in WaitCallbacks : HandleStreamingResponse(id, cb)
        \/ \E ev \in MultiEvents(id) : Deliver(id, ev)
        \/ Poll(id)
    \/ Tick

SpecMulti == Init /\ [][NextMulti]_vars

\* The two sends that post without streaming: send_message_with_files and
\* the plain send_message, on a service with or without a manager.
NextFiles ==
    \/ \E readable \in BOOLEAN, options \in OptionArgs, darwin \in BOOLEAN,
          rag_ok \in BOOLEAN, chat_ok \in BOOLEAN :
            send_message_with_files(readable, options, darwin, rag_ok, chat_ok)
    \/ \E id \in MainIds, a \in AgentArgs :
            send_message(id, a, FALSE, NoCallbacks)

SpecFiles == Init /\ [][NextFiles]_vars

\* send_message(streaming=True) with the caller's callbacks, the events of
\* its stream and the first pass of its wait loop.
SendEvents == {EvResponseA, EvMessageB, EvEmptyResp, EvComplete, EvError}

NextSend ==
    \E id \in StreamIds :
        \/ \E a \in MainAgents, cb \in CallbackConfigs : send_message(id, a, TRUE, cb)
        \/ \E ev \in SendEvents : Deliver(id, ev)
        \/ Poll(id)

SpecSend == Init /\ [][NextSend]_vars

\* build() against the four fields validate() reads.
NameArgs == {"", "helper"}
DescriptionArgs == {"", "Helps"}
TemperatureArgs == {DefaultTemperature, 25, -1}
MaxTokensArgs == {DefaultMaxTokens, 0}

NextBuild ==
    \/ \E n \in NameArgs : name(n)
    \/ \E d \in DescriptionArgs : description(d)
    \/ \E temp \in TemperatureArgs : temperature(temp)
    \/ \E tokens \in MaxTokensArgs : max_tokens(tokens)
    \/ build

SpecBuild == Init /\ [][NextBuild]_vars

\* One builder, its templates and the agents built from it: the calls that
\* write a configuration, on either side.
CapabilityLists ==
    {<<c>> : c \in Capabilities} \cup {<<c, d>> : c, d \in Capabilities}
InstructionTypes == {"tone"}
TemplateNames == {"financial_analyst", "no_such_template"}

NextShare ==
    \/ name("helper")
    \/ description("Helps")
    \/ temperature(25)
    \/ \E c \in Capabilities : with_capability(c)
    \/ \E cs \in CapabilityLists : with_capabilities(cs)
    \/ \E k \in InstructionTypes : instruction(k)
    \/ \E t \in TemplateNames : from_template(t)
    \/ build
    \/ \E a \in AgentIds, c \in Capabilities : enable_capability(a, c)
    \/ \E a \in AgentIds, k \in InstructionTypes : set_instruction(a, k)

SpecShare == Init /\ [][NextShare]_vars

----------------------------------------------------------------------------
(* Properties *)

Session(id) == sessions[id]

\* The texts a session's on_chunk was called with, in call order.
RECURSIVE ChunkArgs(_)
ChunkArgs(calls) ==
    IF calls = <<>> THEN <<>> ELSE <<Head(calls).arg>> \o ChunkArgs(Tail(calls))

\* The `agent` values that count as no agent.
NoAgent == {"None", ""}

\* C1: in every session that has an on_chunk, after any prefix of its
\* events, the texts passed to on_chunk are exactly the fragments of the
\* accumulated text, in the same order.
C1_ChunksAreAccumulatedText ==
    \A id \in StreamIds :
        (Session(id).state # "ABSENT" /\ Session(id).cb.on_chunk # "none")
            => ChunkArgs(Session(id).chunkCalls) = Session(id).collected_response

\* C2: per session on_complete is invoked at most once, on_error at most
\* once, and never both.
C2_TerminalCallbacksAtMostOnce ==
    \A id \in StreamIds :
        /\ Session(id).completeCalls <= 1
        /\ Len(Session(id).errorCalls) <= 1
        /\ ~(Session(id).completeCalls >= 1 /\ Len(Session(id).errorCalls) >= 1)

\* C3: once a session is COMPLETED or in ERROR, no step invokes on_chunk or
\* appends to the accumulated text.
C3_NothingAfterTerminalEvent ==
    [][\A id \in StreamIds :
          Session(id).state \in {"COMPLETED", "ERROR"}
              => /\ sessions'[id].chunkCalls = Session(id).chunkCalls
                 /\ sessions'[id].collected_response = Session(id).collected_response
      ]_vars

\* A completed session that had chunks delivered and whose stream could
\* still have carried events.
C3_Witness ==
    \E id \in StreamIds :
        /\ Session(id).state = "COMPLETED"
        /\ Session(id).received < MaxEvents
        /\ Session(id).chunkCalls # <<>>

\* C4: after a transport failure the session is in ERROR, a registered
\* on_error has been invoked exactly once with that failure, and on_complete
\* has not been invoked.
C4_TransportFailureReported ==
    \A id \in StreamIds :
        Session(id).lastError = "TransportFailure"
            => /\ Session(id).state \in {"ERROR", "CLOSED"}
               /\ Session(id).completeCalls = 0
               /\ Session(id).cb.on_error # "none"
                    => Len(SelectSeq(Session(id).errorCalls,
                                     LAMBDA e : e = "TransportFailure")) = 1

\* C5: a send_message call without an agent raises ValidationError, issues
\* no post and starts no stream, streaming or not.
C5_SendMessageValidatesFirst ==
    [][\A id \in StreamIds, a \in NoAgent, st \in BOOLEAN, cb \in CallbackConfigs :
          send_message(id, a, st, cb)
              => /\ lastCall'.raised = "ValidationError"
                 /\ httpPosts' = httpPosts
                 /\ sessions' = sessions
                 /\ waiter' = waiter
      ]_vars

\* send_message(streaming=True) without an agent, streaming available, ended
\* in ValidationError.
C5_Witness ==
    /\ lastCall.op = "send_message"
    /\ lastCall.agent \in NoAgent
    /\ lastCall.streaming
    /\ lastCall.raised = "ValidationError"
    /\ event_source_manager /\ streaming_enabled

\* C6: send_streaming_message without an agent raises ValidationError and
\* start_chat_stream is not called.
C6_StreamingSendValidatesFirst ==
    (/\ lastCall.op = "send_streaming_message"
     /\ lastCall.agent \in NoAgent
     /\ event_source_manager)
        => /\ lastCall.raised = "ValidationError"
           /\ lastCall.streams = 0

\* C7: a wait that ends by timeout returns the text accumulated so far and
\* leaves every session as it was: state, registry entry and read loop.
C7_TimeoutChangesNothing ==
    [][\A id \in StreamIds :
          (/\ waiter[id].pc = "polling"
           /\ waiter'[id].pc = "returned"
           /\ waiter'[id].reason = "timeout")
              => /\ sessions' = sessions
                 /\ waiter'[id].result = Join(Session(id).collected_response)
      ]_vars

\* The wait timed out and chunks that arrived afterwards were appended and
\* handed to on_chunk.
C7_Witness ==
    \E id \in StreamIds :
        /\ waiter[id].pc = "returned"
        /\ waiter[id].reason = "timeout"
        /\ Len(Session(id).collected_response) > waiter[id].seen
        /\ Len(Session(id).chunkCalls) > waiter[id].seen
        /\ Session(id).state = "STREAMING"

\* C8: the wait loop never blocks and never outlasts its timeout: while it
\* runs at most T has elapsed and its next step is enabled, and it has
\* returned at most T plus one polling interval after it started.
C8_WaitIsBounded ==
    \A id \in StreamIds :
        /\ waiter[id].pc = "polling"
              => /\ now - waiter[id].start_time <= TimeoutTicks
                 /\ ENABLED Poll(id)
        /\ waiter[id].pc = "sleeping"
              => /\ now - waiter[id].start_time < TimeoutTicks
                 /\ ENABLED Tick
        /\ waiter[id].pc = "returned"
              => waiter[id].returned_at - waiter[id].start_time <= TimeoutTicks + 1

\* The wait returned by timeout on a stream that never reached a terminal
\* state.
C8_Witness ==
    \E id \in StreamIds :
        /\ waiter[id].pc = "returned"
        /\ waiter[id].reason = "timeout"
        /\ Session(id).state \in {"OPEN", "STREAMING", "PAUSED"}

\* C9: a poll before the timeout that finds the session COMPLETED, in ERROR
\* or CLOSED returns at once, with the concatenation of the fragments
\* received so far.
C9_TerminalStateEndsWait ==
    [][\A id \in StreamIds :
          (/\ waiter[id].pc = "polling"
           /\ now - waiter[id].start_time < TimeoutTicks
           /\ Session(id).state \in TerminalStates
           /\ waiter'[id] # waiter[id])
              => /\ waiter'[id].pc = "returned"
                 /\ waiter'[id].returned_at = now
                 /\ waiter'[id].result = Join(Session(id).collected_response)
      ]_vars

\* The wait returned "!Hi" for a stream that delivered "!" then "Hi" and
\* completed.
C9_Witness ==
    \E id \in StreamIds :
        /\ waiter[id].pc = "returned"
        /\ waiter[id].reason = "terminal"
        /\ Session(id).state = "COMPLETED"
        /\ Session(id).collected_response = <<FragB, FragA>>
        /\ waiter[id].result = <<"!", "H", "i">>

\* The texts of the buffered events as the session's handler delivers them.
RECURSIVE BufferedChunks(_, _)
BufferedChunks(handler, buf) ==
    IF buf = <<>> THEN <<>>
    ELSE LET ev == Head(buf)
             t == IF handler = "default_chunk_handler"
                  THEN (IF ChunkText(ev) # <<>> THEN <<ChunkText(ev)>> ELSE <<>>)
                  ELSE (IF ev.isDict /\ ev.response # Absent
                        THEN <<ev.response[1]>> ELSE <<>>)
         IN t \o BufferedChunks(handler, Tail(buf))

\* C10: while a session is PAUSED the events that arrive are buffered in
\* arrival order and none reaches on_chunk or the accumulated text; resume
\* delivers all of them to on_chunk in that order and empties the buffer.
C10_PauseBuffersResumeFlushes ==
    [][\A id \in StreamIds :
          /\ (Session(id).state = "PAUSED" /\ sessions'[id].state = "PAUSED")
                => /\ sessions'[id].chunkCalls = Session(id).chunkCalls
                   /\ sessions'[id].collected_response = Session(id).collected_response
                   /\ \/ sessions'[id].buffer = Session(id).buffer
                      \/ /\ Len(sessions'[id].buffer) = Len(Session(id).buffer) + 1
                         /\ SubSeq(sessions'[id].buffer, 1, Len(Session(id).buffer))
                               = Session(id).buffer
          /\ (/\ Session(id).state = "PAUSED"
              /\ sessions'[id].state = "STREAMING"
              /\ Session(id).cb.on_chunk # "none")
                => /\ ChunkArgs(sessions'[id].chunkCalls)
                        = ChunkArgs(Session(id).chunkCalls)
                            \o BufferedChunks(Session(id).handler, Session(id).buffer)
                   /\ sessions'[id].buffer = <<>>
      ]_vars

\* A resume has just flushed two buffered chunks, "!" then "Hi", behind the
\* "Hi" delivered before the pause.
C10_Witness ==
    \E id \in StreamIds :
        /\ Session(id).state = "STREAMING"
        /\ Session(id).flushed = 2
        /\ Session(id).handler = "default_chunk_handler"
        /\ ChunkArgs(Session(id).chunkCalls) = <<FragA, FragB, FragA>>
        /\ Session(id).collected_response = <<FragA, FragB, FragA>>


----------------------------------------------------------------------------
\* C11: stop on a registered session, whatever its state, leaves it CLOSED
\* and raises nothing; a stop on a session that is already CLOSED changes
\* no session at all.
C11_StopClosesAndIsIdempotent ==
    [][\A id \in StreamIds :
          (/\ stop_stream(id)
           /\ event_source_manager
           /\ Session(id).state # "ABSENT")
             => /\ sessions'[id].state = "CLOSED"
                /\ lastCall'.raised = ""
                /\ Session(id).state = "CLOSED" => sessions' = sessions
      ]_vars

\* The last call was a stop on a stream that had already produced chunks,
\* and the stream is CLOSED.
C11_Witness ==
    \E id \in StreamIds :
        /\ lastCall.op = "stop_stream"
        /\ lastCall.raised = ""
        /\ Session(id).state = "CLOSED"
        /\ Session(id).chunkCalls # <<>>

\* What the caller of a session has seen: the callback invocations and the
\* accumulated text.
Observed(s) ==
    <<s.chunkCalls, s.completeCalls, s.errorCalls, s.escaped,
      s.collected_response, s.buffer>>

\* C12: a step taken while a session is CLOSED invokes none of its
\* callbacks and appends nothing to its accumulated text, wherever the
\* stop fell between two reads of the read loop.
C12_EventsAfterStopDiscarded ==
    [][\A id \in StreamIds :
          Session(id).state = "CLOSED"
             => /\ Observed(sessions'[id]) = Observed(Session(id))
                /\ sessions'[id].state = "CLOSED"
      ]_vars

\* The read loop has read one event after the stop, the session had
\* streamed before, and the event was dropped.
C12_Witness ==
    \E id \in StreamIds :
        /\ Session(id).state = "CLOSED"
        /\ Session(id).discarded = 1
        /\ Session(id).received >= 2
        /\ Session(id).collected_response # <<>>


\* The errors a handler passes to on_error from its except clause.
HandlerErrors == {"CallbackError", "AttributeError"}

\* C13: an exception raised in a caller's callback never leaves the event
\* handler, and it is handed to on_error only when on_error has not fired
\* before: such a report can only be the first on_error invocation of its
\* session.
C13_CallbackFailuresIsolated ==
    \A id \in StreamIds :
        /\ Session(id).escaped = 0
        /\ \A i \in 1..Len(Session(id).errorCalls) :
               Session(id).errorCalls[i] \in HandlerErrors => i = 1


\* The states a session can stream from or come to stream from.
LiveStates == {"CREATED", "OPEN", "STREAMING"}

\* C14: once a session is COMPLETED, ERROR or CLOSED, no event and no
\* control call (stop, pause, resume) brings it back to CREATED, OPEN or
\* STREAMING.
C14_TerminalStatesAreFinal ==
    [][\A id \in StreamIds :
          Session(id).state \in TerminalStates
             => sessions'[id].state \notin LiveStates
      ]_vars

\* A resume was tried on a session that had completed; the call was
\* refused and the session is still COMPLETED.
C14_Witness ==
    \E id \in StreamIds :
        /\ Session(id).state = "COMPLETED"
        /\ lastCall.op = "resume_stream"
        /\ lastCall.raised = "InvalidStreamStateError"


\* stop, pause or resume of stream id is called.
ControlStep(id) == stop_stream(id) \/ pause_stream(id) \/ resume_stream(id)

\* C15: stop, pause and resume on an id that is not in the registry, or
\* with no manager configured, raise nothing and change no session.
C15_ControlOfAbsentStreamIsNoOp ==
    [][\A id \in StreamIds :
          (/\ ControlStep(id)
           /\ ~event_source_manager \/ Session(id).state = "ABSENT")
             => /\ lastCall'.raised = ""
                /\ sessions' = sessions
      ]_vars

\* A resume returned silently although no session is PAUSED or STREAMING
\* and another stream is open: its id was not in the registry.
C15_Witness ==
    /\ event_source_manager
    /\ lastCall.op = "resume_stream"
    /\ lastCall.raised = ""
    /\ \E id \in StreamIds : Session(id).state = "OPEN"
    /\ \E id \in StreamIds : Session(id).state = "ABSENT"


\* C16: pause of a registered session that is not STREAMING, and resume of
\* a registered session that is not PAUSED, fail with
\* InvalidStreamStateError and leave the session (its state, buffer and
\* accumulated text among the rest) as it was.
C16_IneligiblePauseResumeRefused ==
    [][\A id \in StreamIds :
          (/\ event_source_manager
           /\ Session(id).state # "ABSENT"
           /\ \/ pause_stream(id) /\ Session(id).state # "STREAMING"
              \/ resume_stream(id) /\ Session(id).state # "PAUSED")
             => /\ lastCall'.raised = "InvalidStreamStateError"
                /\ sessions'[id] = Session(id)
      ]_vars

\* A pause was refused on a session that is already PAUSED and holds a
\* buffered event and accumulated text.
C16_Witness ==
    \E id \in StreamIds :
        /\ Session(id).state = "PAUSED"
        /\ Session(id).buffer # <<>>
        /\ Session(id).collected_response # <<>>
        /\ lastCall.op = "pause_stream"
        /\ lastCall.raised = "InvalidStreamStateError"


\* The calls that ask for streaming, once the agent has passed validation.
StreamingRequested(call) ==
    /\ call.streaming
    /\ call.op \in {"send_message", "send_streaming_message",
                    "_handle_streaming_response"}
    /\ call.op = "send_message" => call.agent \notin NoAgent

\* C17: with no manager configured, every call that asks for streaming,
\* send_message with streaming=True among them, fails with
\* StreamingResponseError and sends no request.
C17_StreamingWithoutManagerFailsFast ==
    (~event_source_manager /\ StreamingRequested(lastCall))
        => /\ lastCall.raised = "StreamingResponseError"
           /\ lastCall.posts = 0
           /\ lastCall.streams = 0


\* C18: send_message with streaming off and a valid agent sends exactly
\* one request, gives the caller that request's response unless the
\* request itself raised, and leaves the registry of streams as it was.
C18_PlainSendIsOneRequest ==
    [][\A id \in StreamIds, a \in AgentArgs \ NoAgent :
          send_message(id, a, FALSE, NoCallbacks)
             => /\ httpPosts' = httpPosts + 1
                /\ lastCall'.posts = 1
                /\ lastCall'.streams = 0
                /\ lastCall'.raised \in {"", "HTTPError"}
                /\ lastCall'.raised = "" => lastCall'.returned = "http_response"
                /\ sessions' = sessions
                /\ waiter' = waiter
      ]_vars

\* A plain send has returned the response of its one request while a
\* manager is configured, streaming is enabled and a stream is open.
C18_Witness ==
    /\ event_source_manager
    /\ streaming_enabled
    /\ lastCall.op = "send_message"
    /\ ~lastCall.streaming
    /\ lastCall.posts = 1
    /\ lastCall.returned = "http_response"
    /\ \E id \in StreamIds : Session(id).state = "OPEN"


\* The fragments delivered on stream id when two streams run together.
OwnFragments(id) == IF id = "s1" THEN {FragA} ELSE {FragB}

RECURSIVE OnlyFrom(_, _)
OnlyFrom(seq, frags) ==
    seq = <<>> \/ (Head(seq) \in frags /\ OnlyFrom(Tail(seq), frags))

\* C19: with two streams open together, the accumulated text of each
\* session holds only fragments delivered on that session, and the text a
\* collect call has returned is the join of a prefix of its own session's
\* fragments, whatever either session appends afterwards.
C19_SessionsAreIsolated ==
    \A id \in StreamIds :
        /\ OnlyFrom(Session(id).collected_response, OwnFragments(id))
        /\ waiter[id].pc = "returned"
              => \E n \in 0..Len(Session(id).collected_response) :
                    waiter[id].result
                        = Join(SubSeq(Session(id).collected_response, 1, n))

\* The call on s1 has returned "Hi" at its deadline; its session has
\* appended a second fragment since, and s2 holds text of its own.
C19_Witness ==
    /\ waiter["s1"].pc = "returned"
    /\ waiter["s1"].result = FragA
    /\ Session("s1").collected_response = <<FragA, FragA>>
    /\ Session("s2").collected_response = <<FragB>>


\* Event ev reaches the handler of stream id: the session is registered,
\* neither paused nor closed.
Handled(id, ev) ==
    /\ Deliver(id, ev)
    /\ Session(id).state \in {"OPEN", "STREAMING"}

StatusEvent(ev) == ev.isDict /\ ev.status \in {"complete", "error"}

\* The text of an event by the priority search: the response field if it
\* yields text, otherwise message, otherwise the generic text field.
PriorityText(ev) ==
    IF ~ev.isDict THEN <<>>
    ELSE IF ev.response # Absent /\ ev.response[1] # <<>> THEN ev.response[1]
    ELSE IF ev.message # Absent /\ ev.message[1] # <<>> THEN ev.message[1]
    ELSE IF ev.text # Absent THEN ev.text[1]
    ELSE <<>>

\* The text of an event by presence of the key: response if the payload
\* has the key, otherwise message if it has that key, otherwise none.
FirstKeyText(ev) ==
    IF ~ev.isDict THEN <<>>
    ELSE IF ev.response # Absent THEN ev.response[1]
    ELSE IF ev.message # Absent THEN ev.message[1]
    ELSE <<>>

\* The session after an event with text t: the text appended, and passed
\* to on_chunk where one is given; untouched when there is no text.
AfterText(s, s2, t) ==
    IF t = <<>> THEN Observed(s2) = Observed(s)
    ELSE /\ s2.collected_response = Append(s.collected_response, t)
         /\ s.cb.on_chunk # "none"
               => ChunkArgs(s2.chunkCalls) = Append(ChunkArgs(s.chunkCalls), t)

\* C20: the text of an event is found by the priority search response,
\* message, generic text field, each tried when the one before yields no
\* text; the text found is appended and handed on, and an event with no
\* text invokes no callback and appends nothing.
C20_PrioritySearchExtraction ==
    [][\A id \in StreamIds, ev \in Events :
          (/\ Handled(id, ev)
           /\ ~StatusEvent(ev)
           /\ Session(id).handler = "default_chunk_handler")
             => AfterText(Session(id), sessions'[id], PriorityText(ev))
      ]_vars

\* C20, amended: the collect path takes the response field whenever the
\* payload has the key, even with empty text, otherwise the message field
\* when the payload has that key, and nothing else; an event that gives no
\* text this way invokes no callback and appends nothing. The callback path
\* reads the response field alone and calls on_chunk whenever the key is
\* there, empty or not, appending nothing.
C20_FirstPresentKeyExtraction ==
    [][\A id \in StreamIds, ev \in Events :
          (Handled(id, ev) /\ ~StatusEvent(ev))
             => /\ Session(id).handler = "default_chunk_handler"
                   => AfterText(Session(id), sessions'[id], FirstKeyText(ev))
                /\ Session(id).handler = "handle_event"
                   => /\ sessions'[id].collected_response = <<>>
                      /\ ChunkArgs(sessions'[id].chunkCalls)
                           = IF /\ ev.isDict
                                /\ ev.response # Absent
                                /\ Session(id).cb.on_chunk # "none"
                             THEN Append(ChunkArgs(Session(id).chunkCalls),
                                         ev.response[1])
                             ELSE ChunkArgs(Session(id).chunkCalls)
      ]_vars

\* The collect path has received {response: "", message: "!"} and the
\* {text: "Hi"} event: the dispatcher found text and the session streams,
\* yet nothing was appended and on_chunk was not called.
C20_Witness ==
    \E id \in StreamIds :
        /\ Session(id).handler = "default_chunk_handler"
        /\ Session(id).cb.on_chunk = "ok"
        /\ Session(id).state = "STREAMING"
        /\ Session(id).received >= 2
        /\ Session(id).collected_response = <<>>
        /\ Session(id).chunkCalls = <<>>


\* C21: send_message(streaming=True) with callbacks starts a session that
\* has none of them, so whatever events follow none of the three is ever
\* invoked; what the call returns is the join of the non-empty chunk texts
\* its session has accumulated.
C21_CallbacksNotForwarded ==
    [][\A id \in StreamIds :
          /\ \A a \in AgentArgs \ NoAgent, cb \in CallbackConfigs :
                (/\ send_message(id, a, TRUE, cb)
                 /\ event_source_manager
                 /\ streaming_enabled)
                   => sessions'[id].state = "OPEN"
          /\ sessions'[id].chunkCalls = <<>>
          /\ sessions'[id].completeCalls = 0
          /\ sessions'[id].errorCalls = <<>>
          /\ \A i \in 1..Len(sessions'[id].collected_response) :
                sessions'[id].collected_response[i] # <<>>
          /\ waiter'[id].pc = "returned"
                => waiter'[id].result = Join(sessions'[id].collected_response)
      ]_vars

\* A call has returned "Hi!" after two chunks and a completion event, and
\* no callback was invoked on the way.
C21_Witness ==
    \E id \in StreamIds :
        /\ lastCall.op = "send_message"
        /\ lastCall.streaming
        /\ Session(id).state = "COMPLETED"
        /\ Session(id).received = 3
        /\ waiter[id].pc = "returned"
        /\ waiter[id].result = FragA \o FragB
        /\ Session(id).chunkCalls = <<>>
        /\ Session(id).completeCalls = 0


\* C22: send_message_with_files, once its files are read, posts the RAG
\* initialization first and the chat request second, the chat request
\* with the agent and model of the first; when the RAG initialization
\* raises, no chat request follows and the exception reaches the caller.
C22_RagThenChat ==
    LET reqs == lastCall.requests
    IN (lastCall.op = "send_message_with_files"
          /\ lastCall.raised # "FileNotFoundError")
        => /\ Len(reqs) \in {1, 2}
           /\ reqs[1].endpoint = "INITIALIZE_RAG"
           /\ reqs[1].raised
                 => Len(reqs) = 1 /\ lastCall.raised = "HTTPError"
           /\ ~reqs[1].raised
                 => /\ Len(reqs) = 2
                    /\ reqs[2].endpoint = "CHAT"
                    /\ reqs[2].agent = reqs[1].agent
                    /\ reqs[2].model = reqs[1].model
                    /\ lastCall.raised = "" <=> ~reqs[2].raised

\* A call with options {agent: 'finance'} has posted the RAG
\* initialization and then the chat request, both for agent finance and
\* the default model, and returned the chat response.
C22_Witness ==
    /\ lastCall.op = "send_message_with_files"
    /\ lastCall.returned = "http_response"
    /\ httpPosts = 2
    /\ Len(lastCall.requests) = 2
    /\ lastCall.requests[1].agent = "finance"
    /\ lastCall.requests[2].agent = "finance"
    /\ lastCall.requests[2].model = "unsloth/Qwen3-1.7B-bnb-4bit"


\* C23: build() raises ValidationError exactly when the configured name
\* or description is empty; otherwise it returns an agent that is
\* initialized and holds the configuration, whatever validate() reports
\* of temperature and max_tokens.
C23_BuildChecksNameAndDescriptionOnly ==
    [][build =>
          /\ lastBuild'.raised = "ValidationError"
                <=> (Config.name = "" \/ Config.description = "")
          /\ lastBuild'.raised \in {"", "ValidationError"}
          /\ lastBuild'.raised = ""
                => /\ lastBuild'.agent \in AgentIds
                   /\ agents'[lastBuild'.agent].is_initialized
                   /\ agents[lastBuild'.agent].config = "none"
      ]_vars

\* build() has returned an initialized agent for a configuration on which
\* validate() lists the temperature and the max_tokens errors.
C23_Witness ==
    /\ lastBuild.raised = ""
    /\ lastBuild.agent \in AgentIds
    /\ agents[lastBuild.agent].is_initialized
    /\ lastBuild.reported = <<"Temperature must be between 0 and 2",
                              "Max tokens must be positive">>


RECURSIVE NoDuplicates(_)
NoDuplicates(seq) ==
    seq = <<>> \/ (Head(seq) \notin Range(Tail(seq)) /\ NoDuplicates(Tail(seq)))

\* C24: whatever with_capability, with_capabilities and enable_capability
\* calls are made, no configuration's capability list holds a capability
\* twice, and a call that names only capabilities already in the list
\* leaves every configuration as it was.
C24_CapabilitiesHeldOnce ==
    [][/\ \A c \in ConfigIds : NoDuplicates(configs'[c].capabilities)
       /\ \A cap \in Capabilities :
            (with_capability(cap) /\ cap \in Range(Config.capabilities))
               => configs' = configs
       /\ \A caps \in CapabilityLists :
            (with_capabilities(caps) /\ Range(caps) \subseteq Range(Config.capabilities))
               => configs' = configs
       /\ \A a \in AgentIds, cap \in Capabilities :
            (/\ enable_capability(a, cap)
             /\ cap \in Range(configs[agents[a].config].capabilities))
               => configs' = configs
      ]_vars

\* A fresh builder's configuration holds both capabilities, each once, in
\* the order given, and an agent built from the builder holds that list.
C24_Witness ==
    /\ builder.epoch = 0
    /\ Config.capabilities = <<"web_search", "file_processing">>
    /\ \E a \in AgentIds :
          /\ agents[a].config = builder.config
          /\ agents[a].is_initialized


\* The agents built since from_template last replaced the builder's
\* configuration.
BuiltSinceTemplate ==
    {a \in AgentIds : agents[a].config # "none" /\ agents[a].epoch = builder.epoch}

\* What an agent sees as its configuration, after the step.
SeenBy(a) == configs'[agents'[a].config]

\* C25: build() gives the agent the builder's own configuration object.
\* The agent just built holds the builder's object; every agent built
\* since the last from_template holds it still, so that any two of them
\* hold one object; a setter call on the builder shows in what each of
\* them sees, and enable_capability or set_instruction on one of them
\* shows in the builder's configuration.
C25_BuildSharesConfiguration ==
    [][/\ (build /\ lastBuild'.raised = "")
            => agents'[lastBuild'.agent].config = builder.config
       /\ \A a \in BuiltSinceTemplate :
            /\ agents[a].config = builder.config
            /\ temperature(25) => SeenBy(a).temperature = 25
            /\ \A k \in InstructionTypes :
                  instruction(k) => k \in SeenBy(a).custom_instructions
            /\ \A cap \in Capabilities :
                  /\ with_capability(cap) => cap \in Range(SeenBy(a).capabilities)
                  /\ enable_capability(a, cap)
                        => cap \in Range(configs'[builder'.config].capabilities)
            /\ \A k \in InstructionTypes :
                  set_instruction(a, k)
                     => k \in configs'[builder'.config].custom_instructions
            /\ \A b \in BuiltSinceTemplate : agents[a].config = agents[b].config
      ]_vars

\* Two agents built from a fresh builder hold the builder's object, which
\* carries a temperature, a capability and an instruction set by calls.
C25_Witness ==
    /\ builder.epoch = 0
    /\ agents["a1"].config = "c1"
    /\ agents["a2"].config = "c1"
    /\ Config.temperature = 25
    /\ Config.capabilities = <<"web_search">>
    /\ "tone" \in Config.custom_instructions

====
